---------------------------- MODULE Spec2Model ----------------------------
(***************************************************************************)
(* P4 For Maya: the save interceptor, the connector with its polling job,  *)
(* the two bounded logs and the version-control session of                 *)
(* src/Scripting2023_Final_2DAE03_NooyvanderKolff_Cesanne.py.              *)
(*                                                                         *)
(* Every host event (a button, the idle script job, the before-save        *)
(* callback) is one action.  A handler is written as an operator from the  *)
(* tool's state to the tool's state; the record it works on carries a      *)
(* pending exception (exc), so that try / except / finally and an          *)
(* exception that leaves the handler are followed as Python follows them.  *)
(***************************************************************************)
EXTENDS Integers, Sequences, FiniteSets, TLC

VARIABLES
    connected,      \* P4MayaControl.__connected
    p4_open,        \* P4MayaControl.p4 is connected (a session is open on it)
    local_open,     \* a session is open on a P4() object local to a handler
    p4_params,      \* port / user / client of P4MayaControl.p4
    job,            \* Connector.__job: 0 for "", otherwise the script job id
    jobs,           \* the idle script jobs registered with the host
    elapsed,        \* datetime.now() - Connector.__last_checked, in seconds
    since_reval,    \* seconds since the last poll re-validation, -1: none yet
    conn_log,       \* Connector.__log, newest first
    bar_log,        \* P4Bar.__log, oldest first
    prefs,          \* PreferenceHandler.__preferences
    pref_file,      \* the preference file on disk: its JSON document, or none
    state,          \* CustomSave.__state
    options,        \* CustomSave.__options
    icon,           \* the connection display of the settings window shows "Connected"
    bar_icon,       \* the connection display of the docked bar shows "Connected"
    window_open,    \* the settings window is shown
    bar_open,       \* the docked bar exists
    callbacks,      \* P4MayaControl.__callbacks
    bar_callbacks,  \* P4Bar.__callbacks
    cb_registry     \* the scene callbacks registered with the host: <<id, kind>>

vars == <<connected, p4_open, local_open, p4_params, job, jobs, elapsed,
          since_reval, conn_log, bar_log, prefs, pref_file, state, options,
          icon, bar_icon, window_open, bar_open, callbacks, bar_callbacks,
          cb_registry>>

-----------------------------------------------------------------------------
(* Program constants and bounds of the model.                              *)

LogLimit == 50          \* P4Bar.__update_log: if len(self.__log) > 50
ConnLogLimit == 50      \* Connector.log_connection: if len(self.__log) > 50
Interval == 10          \* Connector.__check_connection: interval = 10

MaxLog == 6             \* a fresh run is followed while the two logs hold this many lines
MaxOver == 1            \* a long run is followed this many lines past the two limits
MaxElapsed == 11        \* the clocks are followed up to this many seconds
MaxWarnings == 2        \* centring warnings one scene can raise
MaxName == 3            \* characters of the file names the path checks are tried on

MessageType == {"LOG", "WARNING", "ERROR"}
CheckType == {"ERROR", "WARNING", "NONE"}

-----------------------------------------------------------------------------
(* Python values and exceptions.  A handler works on a record s: the       *)
(* tool's state, the exception pending in s.exc, and the handler's locals. *)
(* A statement is not reached while an exception is pending, so the        *)
(* operators of statements hand such a record on as it is; the except and  *)
(* finally blocks are the operators that look at s.exc.                    *)

Max(a, b) == IF a >= b THEN a ELSE b

\* A str, a list and an int, told apart where the code mixes them up.
Str(x) == [ty |-> "str", val |-> x]
Lst(x) == [ty |-> "list", val |-> x]
Num(x) == [ty |-> "int", val |-> x]

NoExc == [kind |-> "none", errors |-> <<>>, warnings |-> <<>>, value |-> ""]
P4Exception(errs) ==
    [kind |-> "P4Exception", errors |-> errs, warnings |-> <<>>, value |-> "P4 error"]
PyError(k) == [kind |-> k, errors |-> <<>>, warnings |-> <<>>, value |-> ""]

\* Python's == between two values
PyEq(a, b) == a.ty = b.ty /\ a.val = b.val

Raised(s) == s.exc.kind # "none"
Raise(s, e) == [s EXCEPT !.exc = e]
Caught(s) == [s EXCEPT !.exc = NoExc]

\* except P4Exception: pass
Swallow(s) == IF s.exc.kind = "P4Exception" THEN Caught(s) ELSE s

\* "\n".join(errors) for the lists of at most one line the model draws
JoinLines(errs) == IF errs = <<>> THEN "" ELSE errs[1]

\* log_msg = "\n".join(inst.errors); if log_msg == "": log_msg = default
ErrorText(inst, default) ==
    IF JoinLines(inst.errors) = "" THEN default ELSE JoinLines(inst.errors)

\* dict.get(k, default) and dict.update({k: v})
Get(d, k, default) == IF k \in DOMAIN d THEN d[k] ELSE default
Put(d, k, v) == [x \in (DOMAIN d) \cup {k} |-> IF x = k THEN v ELSE d[x]]

-----------------------------------------------------------------------------
(* The version-control collaborator (P4Python) as the code uses it.  env   *)
(* is what the server and the file system answer during one handler.       *)

Sessions(s) == (IF s.p4_open THEN 1 ELSE 0) + (IF s.local_open THEN 1 ELSE 0)

IsOpen(s, who) == IF who = "p4" THEN s.p4_open ELSE s.local_open

SetOpen(s, who, b) ==
    LET t == IF who = "p4" THEN [s EXCEPT !.p4_open = b]
                           ELSE [s EXCEPT !.local_open = b]
    IN  [t EXCEPT !.max_open = Max(@, Sessions(t))]

\* P4.connect(): raises when already connected or when the server is down.
P4_connect(s, who, env) ==
    IF Raised(s) THEN s
    ELSE IF IsOpen(s, who) THEN Raise(s, P4Exception(<<"already connected">>))
    ELSE IF env.session = "down" THEN Raise(s, P4Exception(env.errors))
    ELSE SetOpen(s, who, TRUE)

\* P4.disconnect(): only warns when no session is open.
P4_disconnect(s, who) == IF IsOpen(s, who) THEN SetOpen(s, who, FALSE) ELSE s

\* P4.run(cmd, ...): the command reaches the server only over an open
\* session; it raises when the server answers with an error.
P4_run(s, who, cmd, ok, errs) ==
    IF Raised(s) THEN s
    ELSE IF ~IsOpen(s, who) THEN Raise(s, P4Exception(<<"not connected">>))
    ELSE IF ok THEN [s EXCEPT !.trace = Append(@, cmd)]
    ELSE Raise([s EXCEPT !.trace = Append(@, cmd)], P4Exception(errs))

-----------------------------------------------------------------------------
(* The two logs.                                                           *)

\* list.remove(x): drops the first element equal to x and raises ValueError
\* when there is none.  The logs hold formatted strings, x is a Python value.
IndexOf(l, x) ==
    LET hits == {i \in 1..Len(l) : x.ty = "str" /\ l[i] = x.val}
    IN  IF hits = {} THEN 0 ELSE CHOOSE i \in hits : \A j \in hits : i <= j

ListRemove(l, x) ==
    SubSeq(l, 1, IndexOf(l, x) - 1) \o SubSeq(l, IndexOf(l, x) + 1, Len(l))

\* if len(self.__log) > 50: self.__log.remove(0), in P4Bar.__update_log
bar_log_remove(s) ==
    IF ~(Len(s.bar_log) > LogLimit) THEN s
    ELSE IF IndexOf(s.bar_log, Num(0)) = 0 THEN Raise(s, PyError("ValueError"))
    ELSE [s EXCEPT !.bar_log = ListRemove(@, Num(0))]

\* P4Bar.__update_log
update_log(s, log_message, msg_type) ==
    bar_log_remove([s EXCEPT !.bar_log = Append(@, [type |-> msg_type, msg |-> log_message])])

\* P4Bar.add_to_log: the text field and the string concatenation take a str.
add_to_log(s, log_message, msg_type) ==
    IF Raised(s) THEN s
    ELSE IF log_message.ty # "str" THEN Raise(s, PyError("TypeError"))
    ELSE update_log(s, log_message.val, msg_type)

\* P4MayaControl.send_to_log and P4MayaModule._send_to_log
send_to_log(s, log_message, msg_type) == add_to_log(s, log_message, msg_type)

\* if len(self.__log) > 50: self.__log.remove(0), in Connector.log_connection
conn_log_remove(s) ==
    IF ~(Len(s.conn_log) > ConnLogLimit) THEN s
    ELSE IF IndexOf(s.conn_log, Num(0)) = 0 THEN Raise(s, PyError("ValueError"))
    ELSE [s EXCEPT !.conn_log = ListRemove(@, Num(0))]

\* Connector.log_connection
log_connection(s, log_message) ==
    IF Raised(s) THEN s
    ELSE conn_log_remove([s EXCEPT !.conn_log = <<log_message>> \o @])

-----------------------------------------------------------------------------
(* P4MayaControl: the session of the handler and the observers.            *)

\* the return value of ChangeLog.__get_changelist before it is called, and
\* the table of the Submit tab before ChangeLog.__create_table builds it
NotFetched == [kind |-> "unset", rows |-> <<>>]
NotShown == [kind |-> "unset", rows |-> <<>>]

\* P4MayaControl.__connect: set to None in __init__ and never assigned again.
ControlConnect == "None"

\* a variant that leaves the session as it is
p4_release_nothing(s) == s

\* P4MayaControl.p4_release; it runs in finally blocks, pending exception or not
p4_release(s) == IF s.p4_open THEN P4_disconnect(s, "p4") ELSE s

\* self.send_to_log(log_msg, ERROR); self.__connect.log_connection(log_msg)
p4_connect_report(s, log_msg) ==
    IF Raised(s) THEN s
    ELSE IF ControlConnect = "None" THEN Raise(s, PyError("AttributeError"))
    ELSE log_connection(s, log_msg)

\* except P4Exception as inst, in P4MayaControl.p4_connect
p4_connect_except(s, handle_error) ==
    IF ~Raised(s) THEN s
    ELSE IF ~handle_error THEN Raise(p4_release(Caught(s)), s.exc)
    ELSE p4_connect_report(
             send_to_log(p4_release(Caught(s)),
                         Str(ErrorText(s.exc, "The server given does not exist. Please try again.")),
                         "ERROR"),
             ErrorText(s.exc, "The server given does not exist. Please try again."))

\* P4MayaControl.p4_connect
p4_connect(s, handle_error, env) ==
    IF Raised(s) THEN s
    ELSE p4_connect_except(
             P4_run(P4_connect(s, "p4", env), "p4", "login", env.session = "ok", env.errors),
             handle_error)

\* raw_changelist: what the server answers to `opened` for the default changelist
RawOpened(env) ==
    IF env.opened = "none" THEN <<>>
    ELSE <<[depotFile |-> "//depot/a.mb", action |-> "edit"],
           [depotFile |-> "//depot/b.mb", action |-> "delete"]>>

\* the dictionary ChangeLog.__get_changelist appends for one raw entry
Entry(f) ==
    [action |-> f.action, file |-> f.depotFile,
     last_modified |-> IF f.action # "delete" THEN "mtime" ELSE "None"]

Entries(raw) == [i \in 1..Len(raw) |-> Entry(raw[i])]

\* the loop over raw_changelist; os.path.getmtime of an opened file raises
\* OSError when the file is gone
get_changelist_files(s, env) ==
    IF Raised(s) THEN s
    ELSE IF env.opened = "stale" THEN Raise(s, PyError("OSError"))
    ELSE [s EXCEPT !.changelist = [kind |-> "list", rows |-> Entries(RawOpened(env))]]

\* except P4Exception as inst, in ChangeLog.__get_changelist
get_changelist_except(s) ==
    IF s.exc.kind = "P4Exception"
    THEN send_to_log([Caught(s) EXCEPT !.changelist = [kind |-> "list", rows |-> <<>>]],
                     Str(s.exc.value), "ERROR")
    ELSE s

\* return changelist: nothing is returned when an exception leaves the method
get_changelist_return(s) ==
    IF Raised(s) THEN [s EXCEPT !.changelist = NotFetched] ELSE s

\* a variant whose Submit button sends the changelist
get_changelist_submit(s, env) ==
    IF Raised(s) \/ ~s.connected THEN s
    ELSE p4_release(get_changelist_except(
             P4_run(P4_run(p4_connect(s, TRUE, env),
                           "p4", "opened", env.opened # "fail", env.errors),
                    "p4", "submit", TRUE, <<>>)))

\* ChangeLog.__get_changelist, called by ChangeLog.refresh through __create_table
get_changelist(s, env) ==
    IF Raised(s) THEN s
    ELSE IF ~s.connected THEN [s EXCEPT !.changelist = [kind |-> "None", rows |-> <<>>]]
    ELSE get_changelist_return(p4_release(get_changelist_except(get_changelist_files(
             P4_run(P4_run(p4_connect([s EXCEPT !.changelist = [kind |-> "list", rows |-> <<>>]],
                                      TRUE, env),
                           "p4", "opened", env.opened # "fail", env.errors),
                    "p4", "info", TRUE, <<>>),
             env))))

\* one row of the table: "del" for a delete, the date or nothing
Row(e) ==
    [action |-> IF e.action = "delete" THEN "del" ELSE e.action, file |-> e.file,
     date |-> IF e.last_modified # "None" THEN "dd/mm/yyyy hh:mm" ELSE ""]

\* ChangeLog.__create_table after the header row, changelist being returned
table_rows(s) ==
    IF Raised(s) THEN s
    ELSE IF s.changelist.kind = "None"
    THEN [s EXCEPT !.table = [kind |-> "P4 is not connected.", rows |-> <<>>]]
    ELSE IF s.changelist.rows = <<>>
    THEN [s EXCEPT !.table = [kind |-> "No files were opened.", rows |-> <<>>]]
    ELSE [s EXCEPT !.table = [kind |-> "rows",
                              rows |-> [i \in 1..Len(s.changelist.rows) |->
                                           Row(s.changelist.rows[i])]]]

\* ChangeLog.refresh: the old table is deleted, __create_table builds the
\* header row, fetches the changelist and shows it
create_table(s, env) ==
    IF Raised(s) THEN s
    ELSE table_rows(get_changelist([s EXCEPT !.table = [kind |-> "header", rows |-> <<>>]],
                                   env))

\* log_msg of the except block of Rollback.__get_history
get_history_text(inst) ==
    IF JoinLines(inst.errors) # "" THEN JoinLines(inst.errors)
    ELSE IF JoinLines(inst.warnings) # "" THEN JoinLines(inst.warnings)
    ELSE "File History could not be retrieved because of an unknown error."

\* except P4Exception as inst, in Rollback.__get_history
get_history_except(s) ==
    IF s.exc.kind # "P4Exception" THEN s
    ELSE IF get_history_text(s.exc) = "no such file(s)." THEN Caught(s)
    ELSE send_to_log(Caught(s), Str(get_history_text(s.exc)), "ERROR")

\* Rollback.__get_history, called by Rollback.refresh through __create_table
get_history(s, env) ==
    IF Raised(s) \/ ~s.connected \/ env.path = <<>> THEN s
    ELSE p4_release(get_history_except(
             P4_run(P4_run(P4_run(p4_connect(s, TRUE, env),
                                  "p4", "where", env.history # "error", env.errors),
                           "p4", "filelog", env.history # "nofile", <<"no such file(s).">>),
                    "p4", "describe", TRUE, <<>>)))

\* self.__observers after P4MayaFactory.__create_modules, in subscription order
Observers == <<"Connector", "CustomSave", "ChangeLog", "Rollback">>

\* o.refresh() is entered for one observer of P4MayaControl.refresh
notify(s, o) == IF Raised(s) THEN s ELSE [s EXCEPT !.refreshed = Append(@, o)]

\* P4MayaControl.refresh: Connector and CustomSave keep the empty refresh of
\* P4MayaModule, then ChangeLog.refresh and Rollback.refresh in this order.
refresh(s, env) ==
    get_history(
        notify(create_table(notify(notify(notify(s, Observers[1]), Observers[2]),
                                   Observers[3]),
                            env),
               Observers[4]),
        env)

\* P4Bar.set_connected
bar_set_connected(s, conn) == [s EXCEPT !.bar_icon = conn]

\* Set own display, then the bar's display, in P4MayaControl.__set_connected
set_display(s, conn) == bar_set_connected([s EXCEPT !.icon = conn], conn)

\* a variant that refreshes the observers with every call
set_connected_always(s, conn, env) ==
    refresh([set_display(s, conn) EXCEPT !.connected = conn], env)

\* P4MayaControl.__set_connected
set_connected(s, conn, env) ==
    IF s.connected # conn
    THEN refresh([set_display(s, conn) EXCEPT !.connected = conn], env)
    ELSE set_display(s, conn)

\* a variant that takes over the parameters whether connected or not
set_params_always(s, port, user, client, conn) ==
    [s EXCEPT !.p4_params = [port |-> port, user |-> user, client |-> client]]

\* if connected: self.p4.port = port ..., in P4MayaControl.change_connection
set_params(s, port, user, client, conn) ==
    IF conn THEN [s EXCEPT !.p4_params = [port |-> port, user |-> user, client |-> client]]
    ELSE s

\* P4MayaControl.change_connection
change_connection(s, port, user, client, conn, env) ==
    set_connected(set_params(p4_release(s), port, user, client, conn), conn, env)

-----------------------------------------------------------------------------
(* PreferenceHandler.                                                      *)

\* PreferenceHandler.get_pref; the caller gives what "or" falls back to
get_pref(s, class_key, var_key, default) ==
    Get(Get(s.prefs, class_key, <<>>), var_key, default)

\* a variant that starts the module's entry afresh with every value set
set_pref_fresh(s, class_key, var_key, value) ==
    [s EXCEPT !.prefs = Put(@, class_key, Put(<<>>, var_key, value))]

\* PreferenceHandler.set_pref
set_pref(s, class_key, var_key, value) ==
    [s EXCEPT !.prefs = Put(@, class_key, Put(Get(s.prefs, class_key, <<>>), var_key, value))]

\* The Python type of the value the code keeps under a key of the preference
\* map: the module entries and the option map are dicts, the mode and the
\* naming approach ints, the text fields strs, the check boxes bools.
PyKind(key) ==
    IF key \in {"CONNECTOR", "CUSTOM_SAVE", "options"} THEN "dict"
    ELSE IF key \in {"state", "naming_approach"} THEN "int"
    ELSE IF key \in {"P4PORT", "P4USER", "P4CLIENT", "naming_convention_prefix",
                     "naming_convention_suffix", "naming_convention_regex",
                     "naming_convention", "directory"} THEN "str"
    ELSE "bool"

\* json.dumps: a dict becomes an object, an int a number, a str a string, a
\* bool one of the literals true and false
RECURSIVE json_dumps(_, _)
json_dumps(kind, value) ==
    IF kind = "dict"
    THEN [j |-> "object",
          v |-> [k \in DOMAIN value |-> json_dumps(PyKind(k), value[k])]]
    ELSE IF kind = "int" THEN [j |-> "number", v |-> value]
    ELSE IF kind = "str" THEN [j |-> "string", v |-> value]
    ELSE [j |-> IF value THEN "true" ELSE "false", v |-> 0]

\* json.loads
RECURSIVE json_loads(_)
json_loads(doc) ==
    IF doc.j = "object" THEN [k \in DOMAIN doc.v |-> json_loads(doc.v[k])]
    ELSE IF doc.j = "true" THEN TRUE
    ELSE IF doc.j = "false" THEN FALSE
    ELSE doc.v

\* no preference file in the user's preference directory
NoPrefs == <<>>

\* what json.dumps writes for a preference map
Written(preferences) == json_dumps("dict", preferences)

\* a variant of a window whose close command is not the saving one
save_pref_skipped(s) == s

\* PreferenceHandler.save_pref
save_pref(s) == [s EXCEPT !.pref_file = Written(s.prefs)]

\* PreferenceHandler.__load_pref: the map read from the file, {} without one
read_pref(file) == IF file = NoPrefs THEN <<>> ELSE json_loads(file)

-----------------------------------------------------------------------------
(* Scene callbacks, the settings window and the docked bar.                *)

CbIds(registry) == {c[1] : c \in registry}

\* Om.MSceneMessage.addCallback / addCheckCallback: the host hands out an id
NewCb(registry) ==
    CHOOSE n \in 1..(Cardinality(registry) + 1) : n \notin CbIds(registry)

\* Om.MSceneMessage.removeCallback(cb); stale_remove: the id was not registered
removeCallback(s, cb) ==
    [s EXCEPT !.cb_registry = {c \in @ : c[1] # cb},
              !.stale_remove = @ \/ cb \notin CbIds(s.cb_registry)]

\* for cb in self.__callbacks: Om.MSceneMessage.removeCallback(cb)
RECURSIVE remove_all(_, _)
remove_all(s, cbs) ==
    IF cbs = <<>> THEN s ELSE remove_all(removeCallback(s, Head(cbs)), Tail(cbs))

\* a variant that forgets the callbacks and leaves them registered
bar_remove_callbacks_forget(s) == [s EXCEPT !.bar_callbacks = <<>>]

\* P4Bar.__remove_callbacks
bar_remove_callbacks(s) == [remove_all(s, s.bar_callbacks) EXCEPT !.bar_callbacks = <<>>]

\* P4MayaControl.__remove_callbacks
remove_callbacks(s) == [remove_all(s, s.callbacks) EXCEPT !.callbacks = <<>>]

\* P4MayaControl.manage_callback and P4Bar.manage_callbacks
manage_callbacks(s, cb_id) == [s EXCEPT !.bar_callbacks = Append(@, cb_id)]

\* CustomSave.__create_callbacks, then self._handler.manage_callback(self.__cb_id)
create_callbacks(s) ==
    manage_callbacks([s EXCEPT !.cb_registry = @ \cup {<<NewCb(s.cb_registry), "save">>}],
                     NewCb(s.cb_registry))

\* Om.MSceneMessage.addCallback(kind, refresh) and self.__callbacks.append
add_scene_callback(s, kind) ==
    [s EXCEPT !.cb_registry = @ \cup {<<NewCb(s.cb_registry), kind>>},
              !.callbacks = Append(@, NewCb(s.cb_registry))]

\* if not self.__callbacks, in P4MayaControl.open_window
open_window_callbacks(s) ==
    IF Raised(s) \/ s.callbacks # <<>> THEN s
    ELSE add_scene_callback(add_scene_callback(s, "new"), "open")

\* P4MayaControl.open_window
open_window(s, env) ==
    open_window_callbacks(refresh([s EXCEPT !.window_open = TRUE], env))

\* The close command of the settings window: P4MayaControl.__init__ sets it to
\* __remove_callbacks, P4MayaFactory.__create_modules then sets it to save_pref.
WindowCloseCommand == "save_pref"

\* the settings window is closed: its close command runs
close_window(s) ==
    IF WindowCloseCommand = "remove_callbacks"
    THEN [remove_callbacks(s) EXCEPT !.window_open = FALSE]
    ELSE [save_pref(s) EXCEPT !.window_open = FALSE]

\* the docked bar is closed: cc=self.__remove_callbacks of the dockControl
close_bar(s) == [bar_remove_callbacks(s) EXCEPT !.bar_open = FALSE]

-----------------------------------------------------------------------------
(* Connector.                                                              *)

\* cmds.scriptJob(e=["idle", ...]): the host hands out a fresh job number
NewJob(registered) ==
    CHOOSE n \in 1..(Cardinality(registered) + 1) : n \notin registered

\* a variant that kills the job and keeps its id in self.__job
kill_job_keeps_id(s) ==
    [s EXCEPT !.jobs = @ \ {s.job}, !.stale_kill = @ \/ s.job \notin s.jobs]

\* cmds.scriptJob(kill=self.__job); self.__job = ""
kill_job(s) ==
    [s EXCEPT !.jobs = @ \ {s.job}, !.job = 0,
              !.stale_kill = @ \/ s.job \notin s.jobs]

\* if connected: the three set_pref calls of Connector.__set_p4
save_params(s, fields, conn) ==
    IF ~conn THEN s
    ELSE set_pref(set_pref(set_pref(s, "CONNECTOR", "P4PORT", fields.port),
                           "CONNECTOR", "P4USER", fields.user),
                  "CONNECTOR", "P4CLIENT", fields.client)

\* if not connected and self.__job and not on_job, in Connector.__set_p4
set_p4_job(s, conn, on_job) ==
    IF ~conn /\ s.job # 0 /\ ~on_job THEN kill_job(s) ELSE s

\* Connector.__set_p4
set_p4(s, fields, conn, on_job, env) ==
    IF Raised(s) THEN s
    ELSE change_connection(set_p4_job(save_params(s, fields, conn), conn, on_job),
                           fields.port, fields.user, fields.client, conn, env)

\* self.__last_checked = datetime.now()
checked_now(s) ==
    [s EXCEPT !.elapsed = 0, !.revalidated = TRUE, !.gap = s.since_reval, !.since_reval = 0]

\* except P4Exception as inst, in Connector.__check_connection
check_connection_except(s, fields, env) ==
    IF s.exc.kind # "P4Exception" THEN s
    ELSE send_to_log(
             log_connection(
                 set_p4(Caught(s), fields, FALSE, TRUE, env),
                 ErrorText(s.exc, "Something went wrong. P4 connection broken. Please, check your network connection.")),
             Str(ErrorText(s.exc, "Something went wrong. P4 connection broken. Please, check your network connection.")),
             "WARNING")

\* a variant that polls again as soon as the interval is reached
interval_reached(s) == s.elapsed >= Interval

\* if datetime.now() - self.__last_checked > timedelta(seconds=interval)
interval_passed(s) == s.elapsed > Interval

\* Connector.__check_connection, run by the idle script job
check_connection(s, fields, env) ==
    IF ~s.connected \/ ~interval_passed(s) THEN s
    ELSE p4_release(check_connection_except(
             P4_run(p4_connect(checked_now(s), FALSE, env), "p4", "login", TRUE, <<>>),
             fields, env))

\* log_msg and msg_type as the try and except blocks of Connector.__connect set them
connect_msg(s, env) ==
    IF Raised(s)
    THEN ErrorText(s.exc, "The server given can not be reached. Please, check your network connection and the server you provided.")
    ELSE IF env.unknown = "none" THEN "Connected to P4 server {port} as {user} on {client}."
    ELSE IF env.unknown = "user" THEN "The user given does not exist. Please try again."
    ELSE "The workspace given does not exist. Please try again."

connect_type(s, env) == IF Raised(s) \/ env.unknown # "none" THEN "ERROR" ELSE "LOG"

\* Set up or kill the script job if necessary, in Connector.__connect
connect_job(s, conn) ==
    IF Raised(s) THEN s
    ELSE IF s.job = 0 /\ conn
    THEN [s EXCEPT !.job = NewJob(s.jobs), !.jobs = @ \cup {NewJob(s.jobs)}]
    ELSE IF s.job # 0 /\ ~conn THEN kill_job(s)
    ELSE s

\* Connector.__connect from finally on: s is the record the try block left
connect_finally(s, fields, env) ==
    send_to_log(
        set_p4(connect_job(log_connection(P4_disconnect(Caught(s), "local"),
                                          connect_msg(s, env)),
                           connect_type(s, env) # "ERROR"),
               fields, connect_type(s, env) # "ERROR", FALSE, env),
        Str(connect_msg(s, env)), connect_type(s, env))

\* a variant that tries the connection without looking at the fields
connect_unchecked(s, fields, env) ==
    connect_finally(
        P4_run(P4_run(P4_connect(s, "local", env), "local", "info", TRUE, <<>>),
               "local", "login", env.session = "ok", env.errors),
        fields, env)

\* Connector.__connect
connect(s, fields, env) ==
    IF fields.port = "" \/ fields.user = "" \/ fields.client = ""
    THEN log_connection(s, "Please fill in all the fields.")
    ELSE connect_finally(
             P4_run(P4_run(P4_connect(s, "local", env), "local", "info", TRUE, <<>>),
                    "local", "login", env.session = "ok", env.errors),
             fields, env)

\* Connector.__disconnect
disconnect(s, fields, env) ==
    send_to_log(log_connection(set_p4(s, fields, FALSE, FALSE, env),
                               "Disconnected from P4."),
                Str("Disconnected from P4."), "LOG")

\* Connector.__refresh_workspaces
refresh_workspaces(s, env) ==
    P4_disconnect(
        Swallow(P4_run(P4_connect(s, "local", env), "local", "clients",
                       env.session = "ok", env.errors)),
        "local")

-----------------------------------------------------------------------------
(* Paths and names are sequences of characters; a pattern is a sequence of *)
(* atoms, each one literal character or ".*".                              *)

LastIndex(x, ch) ==
    LET hits == {i \in 1..Len(x) : x[i] = ch}
    IN  IF hits = {} THEN 0 ELSE CHOOSE i \in hits : \A j \in hits : j <= i

\* os.path.basename and os.path.dirname
basename(path) == SubSeq(path, LastIndex(path, "/") + 1, Len(path))
dirname(path) == SubSeq(path, 1, LastIndex(path, "/") - 1)

\* os.path.splitext(name)[0]: a leading dot starts no extension
splitext(name) ==
    LET i == LastIndex(name, ".")
    IN  IF i <= 1 THEN name ELSE SubSeq(name, 1, i - 1)

\* re.match(pattern, text): anchored at the start of text, not at its end
RECURSIVE MatchFrom(_, _, _, _)
MatchFrom(pattern, i, text, j) ==
    IF i > Len(pattern) THEN TRUE
    ELSE IF pattern[i] = ".*"
         THEN \E k \in j..(Len(text) + 1) : MatchFrom(pattern, i + 1, text, k)
         ELSE j <= Len(text) /\ text[j] = pattern[i]
              /\ MatchFrom(pattern, i + 1, text, j + 1)

re_match(pattern, text) == MatchFrom(pattern, 1, text, 1)

\* os.path.realpath, for the absolute paths without links the model draws:
\* a separator at the end is dropped
realpath(path) ==
    IF Len(path) > 1 /\ path[Len(path)] = "/" THEN SubSeq(path, 1, Len(path) - 1) ELSE path

\* os.path.commonprefix([a, b]): character by character
commonprefix(a, b) ==
    LET same == {n \in 0..Len(a) : n <= Len(b) /\ SubSeq(a, 1, n) = SubSeq(b, 1, n)}
    IN  SubSeq(a, 1, CHOOSE n \in same : \A m \in same : m <= n)

-----------------------------------------------------------------------------
(* CustomSave.                                                             *)

\* CustomSave.CheckType
CheckTypeOf(n) == IF n = 0 THEN "ERROR" ELSE IF n = 1 THEN "WARNING" ELSE "NONE"
CheckTypeValue(c) == IF c = "ERROR" THEN 0 ELSE IF c = "WARNING" THEN 1 ELSE 2

\* CustomSave.__init__: the default options
DefaultOptions ==
    [outside_p4 |-> FALSE, check_naming |-> TRUE, naming_approach |-> 0,
     naming_convention_prefix |-> <<>>, naming_convention_suffix |-> <<>>,
     naming_convention_regex |-> <<".*">>, check_directory |-> FALSE,
     directory |-> <<>>, non_manifold |-> FALSE, ngons |-> FALSE,
     concave |-> FALSE, frozen_transform |-> FALSE, centered |-> FALSE]

\* dict.update(other)
Update(d, other) ==
    [k \in (DOMAIN d) \cup (DOMAIN other) |-> IF k \in DOMAIN other THEN other[k] ELSE d[k]]

\* a variant that takes the stored option map in place of the defaults
load_pref_replace(s) ==
    [s EXCEPT !.state = CheckTypeOf(get_pref(s, "CUSTOM_SAVE", "state", 0)),
              !.options = get_pref(s, "CUSTOM_SAVE", "options", DefaultOptions)]

\* CustomSave.__load_pref
load_pref(s) ==
    [s EXCEPT !.state = CheckTypeOf(get_pref(s, "CUSTOM_SAVE", "state", 0)),
              !.options = Update(@, get_pref(s, "CUSTOM_SAVE", "options", <<>>))]

\* CustomSave.__set_state
set_state(s, option) ==
    set_pref([s EXCEPT !.state = CheckTypeOf(option)],
             "CUSTOM_SAVE", "state", CheckTypeValue(CheckTypeOf(option)))

\* CustomSave.__set_variable
set_variable(s, var, value) ==
    set_pref([s EXCEPT !.options = Put(@, var, value)],
             "CUSTOM_SAVE", "options", Put(s.options, var, value))

\* CustomSave.__set_naming and CustomSave.__set_directory: the two check boxes
set_naming(s, val) == set_variable(s, "check_naming", val)
set_directory(s, val) == set_variable(s, "check_directory", val)

\* self.__set_naming(self.__options.get("check_naming"), ...) and
\* self.__set_directory(self.__options.get("check_directory"), ...), called
\* while the naming frame is built; dict.get gives None for a missing key
naming_shown(s) == set_naming(s, Get(s.options, "check_naming", "None"))
directory_shown(s) == set_directory(s, Get(s.options, "check_directory", "None"))

\* CustomSave.__create_naming_frame
create_naming_frame(s) == directory_shown(naming_shown(s))

\* CustomSave.__init__: the stored preferences are loaded, then the UI is built
CustomSave(s) == create_callbacks(create_naming_frame(load_pref(s)))

\* CustomSave.__check_path
check_path(s, path) ==
    LET o == s.options
        pattern == IF o.naming_approach = 1 THEN o.naming_convention_regex
                   ELSE o.naming_convention_prefix \o <<".*">> \o o.naming_convention_suffix
        filename == basename(path)
        pure_filename == splitext(filename)
        naming == IF o.check_naming /\ ~re_match(pattern, filename)
                     /\ ~re_match(pattern, pure_filename)
                  THEN <<"The naming convention with pattern None is not being respected.">>
                  ELSE <<>>
        directory == IF o.check_directory /\ o.directory # <<>>
                        /\ commonprefix(realpath(path), realpath(o.directory))
                               # realpath(o.directory)
                     THEN <<"The file should be saved in {directory}, but was saved in {dirname}.">>
                     ELSE <<>>
    IN  [success |-> naming = <<>> /\ directory = <<>>, warnings |-> naming \o directory]

\* CustomSave.__check_geometry
check_geometry(s, env) ==
    LET o == s.options
        If(b, w) == IF b THEN <<w>> ELSE <<>>
        warnings ==
            If(o.non_manifold /\ "non_manifold" \in env.defects,
               "Non-manifold geometry was found. Please clean up the geometry before saving.")
            \o If(o.ngons /\ "ngons" \in env.defects,
                  "Ngons were found. Please clean up the geometry before saving.")
            \o If(o.concave /\ "concave" \in env.defects,
                  "Concave faces were found. Please clean up the geometry before saving.")
            \o If(o.frozen_transform /\ "unfrozen" \in env.defects,
                  "Not all transforms were frozen.")
            \o (IF o.centered
                THEN [i \in 1..env.off_centre |-> "The meshes are not positioned around (0, 0, 0)."]
                ELSE <<>>)
    IN  [success |-> warnings = <<>>, warnings |-> warnings]

\* CustomSave.__check_open_file
check_open_file(s, env) ==
    LET p == check_path(s, env.path)
        g == check_geometry(s, env)
    IN  IF env.meshes > 0
        THEN [success |-> g.success /\ p.success, warnings |-> g.warnings \o p.warnings]
        ELSE p

\* CustomSave.p4_in_workspace; s.result is what it returns
p4_in_workspace_except(s) ==
    IF s.exc.kind = "P4Exception" THEN [Caught(s) EXCEPT !.result = FALSE]
    ELSE [s EXCEPT !.result = TRUE]

p4_in_workspace(s, env) ==
    IF Raised(s) THEN s
    ELSE p4_in_workspace_except(P4_run(s, "p4", "where", env.mapped, env.errors))

\* CustomSave.p4_exists; s.result is what it returns
p4_exists_except(s) ==
    IF s.exc.kind = "P4Exception" THEN [Caught(s) EXCEPT !.result = FALSE]
    ELSE [s EXCEPT !.result = TRUE]

p4_exists(s, env) ==
    IF Raised(s) THEN s
    ELSE p4_exists_except(P4_run(s, "p4", "files", env.in_depot, env.errors))

-----------------------------------------------------------------------------
(* CustomSave.__intercept_save.  s.returned: the handler left through the  *)
(* return inside its try block; s.continue_save is the local of that name. *)

\* for w in warnings: self._send_to_log(w, state)
RECURSIVE send_warnings(_, _, _)
send_warnings(s, warnings, msg_type) ==
    IF warnings = <<>> \/ Raised(s) THEN s
    ELSE send_warnings(send_to_log(s, Str(Head(warnings)), msg_type),
                       Tail(warnings), msg_type)

\* state = MessageType.ERROR if self.__state == CheckType.ERROR else MessageType.WARNING
save_msg_type(s) == IF s.state = "ERROR" THEN "ERROR" ELSE "WARNING"

\* check = True; if not outside_p4: check = self.p4_in_workspace(p4, path)
save_where(s, env) ==
    IF Raised(s) THEN s
    ELSE IF ~s.options.outside_p4 THEN p4_in_workspace(s, env)
    ELSE [s EXCEPT !.result = TRUE]

\* a variant that cancels the save whatever the mode is
save_deny_any_mode(s) ==
    IF Raised(s) THEN s
    ELSE [p4_release(s) EXCEPT !.ret_code = "false", !.returned = TRUE]

\* a variant that goes on to the add or edit step in every mode
save_deny_never(s) == s

\* if self.__state is CheckType.ERROR: release, setBool(ret_code, False), return
save_deny(s) ==
    IF Raised(s) \/ s.state # "ERROR" THEN s
    ELSE [p4_release(s) EXCEPT !.ret_code = "false", !.returned = TRUE]

\* checks_passed, warnings = self.__check_open_file(); if not checks_passed: ...
save_checked(s, checked) ==
    IF checked.success THEN [s EXCEPT !.trace = Append(@, "check")]
    ELSE save_deny(send_warnings(
             [s EXCEPT !.trace = Append(@, "check"), !.warnings = checked.warnings],
             checked.warnings, save_msg_type(s)))

\* a variant that evaluates the checks in every mode
save_checks_any_mode(s, env) ==
    IF Raised(s) \/ ~s.result THEN s
    ELSE save_checked(s, check_open_file(s, env))

\* if check and self.__state is not CheckType.NONE: ...
save_checks(s, env) ==
    IF Raised(s) \/ ~(s.result /\ s.state # "NONE") THEN s
    ELSE save_checked(s, check_open_file(s, env))

\* if not self.p4_exists(p4, file): p4.run("add", file) else: p4.run("edit", file)
add_or_edit_file(s, env) ==
    IF Raised(s) THEN s
    ELSE P4_run(s, "p4", IF s.result THEN "edit" ELSE "add", env.open_ok, env.errors)

\* if self.p4_in_workspace(p4, dir_name): ...
add_or_edit_mapped(s, env) ==
    IF Raised(s) \/ ~s.result THEN s ELSE add_or_edit_file(p4_exists(s, env), env)

\* Add or check out the file from P4.
add_or_edit(s, env) ==
    IF Raised(s) \/ s.returned THEN s
    ELSE add_or_edit_mapped(p4_in_workspace(s, env), env)

\* message = inst.errors, a list; if message == "": message = inst.warnings
save_message(inst) ==
    IF PyEq(Lst(inst.errors), Str("")) THEN Lst(inst.warnings) ELSE Lst(inst.errors)

\* continue_save = False, reached when send_to_log came back
save_cancel(s) == IF Raised(s) THEN s ELSE [s EXCEPT !.continue_save = FALSE]

\* except P4Exception as inst, in CustomSave.__intercept_save
save_except(s) ==
    IF s.exc.kind # "P4Exception" THEN s
    ELSE save_cancel(send_to_log(Caught(s), save_message(s.exc), "ERROR"))

\* Om.MScriptUtil.setBool(ret_code, continue_save)
set_ret_code(s) ==
    IF Raised(s) THEN s
    ELSE [s EXCEPT !.ret_code = IF s.continue_save THEN "true" ELSE "false"]

\* self._handler.refresh(); Om.MScriptUtil.setBool(ret_code, continue_save)
save_done(s, env) ==
    IF Raised(s) \/ s.returned THEN s ELSE set_ret_code(refresh(s, env))

\* CustomSave.__intercept_save
intercept_save(s, env) ==
    IF ~s.connected THEN save_done(s, env)
    ELSE save_done(
             p4_release(save_except(add_or_edit(
                 save_checks(save_where(p4_connect(s, TRUE, env), env), env),
                 env))),
             env)

-----------------------------------------------------------------------------
(* What the handlers are given: the text fields, the server's answers, the *)
(* scene being saved, the preference file found at start.                  *)

GoodPath == <<"/", "w", "/", "S", "M", "_", "a", ".", "m", "a">>
BadPath == <<"/", "w", "/", "a", ".", "m", "a">>
SMPrefix == <<"S", "M", "_">>

BaseEnv ==
    [session |-> "ok", unknown |-> "none", errors |-> <<"P4 error">>,
     mapped |-> TRUE, in_depot |-> TRUE, open_ok |-> TRUE,
     opened |-> "ok", history |-> "ok",
     path |-> GoodPath, meshes |-> 0, off_centre |-> 0, defects |-> {}]

Down == [BaseEnv EXCEPT !.session = "down", !.errors = <<>>]
Expired == [BaseEnv EXCEPT !.session = "expired"]

\* the server's side of a save
SaveServers ==
    {BaseEnv, Down,
     [BaseEnv EXCEPT !.mapped = FALSE],
     [BaseEnv EXCEPT !.in_depot = FALSE],
     [BaseEnv EXCEPT !.open_ok = FALSE],
     [BaseEnv EXCEPT !.in_depot = FALSE, !.open_ok = FALSE]}

\* the scene's side of a save: a file name against the convention, meshes
\* away from the origin
BadScenes ==
    {[BaseEnv EXCEPT !.path = BadPath],
     [BaseEnv EXCEPT !.path = BadPath, !.meshes = MaxWarnings,
                     !.off_centre = MaxWarnings, !.defects = {"ngons"}],
     [BaseEnv EXCEPT !.path = BadPath, !.mapped = FALSE],
     [BaseEnv EXCEPT !.path = BadPath, !.open_ok = FALSE],
     [BaseEnv EXCEPT !.path = BadPath, !.in_depot = FALSE]}

SaveEnvs == SaveServers \cup BadScenes

ConnectEnvs ==
    {BaseEnv, Down, Expired,
     [BaseEnv EXCEPT !.unknown = "user"], [BaseEnv EXCEPT !.unknown = "workspace"]}

PollEnvs == {BaseEnv, Down, Expired}

ChangelistEnvs ==
    {BaseEnv, Down, Expired, [BaseEnv EXCEPT !.opened = "fail"],
     [BaseEnv EXCEPT !.opened = "stale"], [BaseEnv EXCEPT !.opened = "none"]}

HistoryEnvs ==
    {BaseEnv, Down, [BaseEnv EXCEPT !.history = "nofile"],
     [BaseEnv EXCEPT !.history = "error"], [BaseEnv EXCEPT !.path = <<>>]}

RefreshEnvs == {BaseEnv, Expired, [BaseEnv EXCEPT !.opened = "fail"]}

Filled(port) == [port |-> port, user |-> "user", client |-> "client"]
FieldInputs == {Filled("p1"), Filled("p2"), [Filled("p1") EXCEPT !.client = ""]}

\* the option changes the settings tab is used for
OptionEdits ==
    {<<"outside_p4", TRUE>>, <<"outside_p4", FALSE>>,
     <<"centered", TRUE>>, <<"centered", FALSE>>,
     <<"naming_convention_prefix", SMPrefix>>}

\* what the prefix and suffix fields are filled with
NameTexts == {<<>>, <<"S">>, <<"a">>, <<"S", "a">>, <<"a", "S">>}

\* what the directory field is filled with
Directories ==
    {<<>>, <<"/", "w", "/", "a">>, <<"/", "w", "/", "a", "/">>, <<"/", "w", "/", "a", "b">>}

\* the file names a scene is saved under: up to MaxName characters
NameChars == {"S", "a", "."}
SceneNames == UNION {[1..n -> NameChars] : n \in 1..MaxName}

\* the directories a scene is saved in
WorkDir == <<"/", "w">>
SceneDirs ==
    {WorkDir, <<"/", "w", "/", "a">>, <<"/", "w", "/", "a", "b">>,
     <<"/", "w", "/", "a", "/", "b">>}

\* cmds.file(q=True, sn=True)
ScenePath(dir, name) == dir \o <<"/">> \o name

\* the seconds that pass before an idle event
Delays == {0, 5, 6}

\* the preference map an earlier session held when its window was closed
StoredPrefs(mode, outside) ==
    [CONNECTOR |-> [P4PORT |-> "p1", P4USER |-> "user", P4CLIENT |-> "client"],
     CUSTOM_SAVE |-> [state |-> mode,
                      options |-> [outside_p4 |-> outside, centered |-> TRUE,
                                   naming_convention_prefix |-> SMPrefix]]]
\* the map of a session whose option map had a key the tool no longer uses
LegacyPrefs ==
    [CUSTOM_SAVE |-> [state |-> 1,
                      options |-> [naming_convention |-> SMPrefix, centered |-> FALSE]]]

\* the preference file at start: none, or one written by an earlier session
PrefFiles ==
    {NoPrefs, Written(StoredPrefs(0, FALSE)), Written(StoredPrefs(1, FALSE)),
     Written(StoredPrefs(2, FALSE)), Written(StoredPrefs(0, TRUE)), Written(LegacyPrefs)}

-----------------------------------------------------------------------------
(* The state after construction (P4MayaFactory.__init__).                  *)

Blank(file) ==
    [connected |-> FALSE, p4_open |-> FALSE, local_open |-> FALSE,
     p4_params |-> [port |-> "P4PORT", user |-> "P4USER", client |-> "P4CLIENT"],
     job |-> 0, jobs |-> {}, elapsed |-> 0, since_reval |-> -1,
     conn_log |-> <<>>, bar_log |-> <<>>, prefs |-> read_pref(file), pref_file |-> file,
     state |-> "ERROR", options |-> DefaultOptions,
     icon |-> TRUE, bar_icon |-> TRUE, window_open |-> FALSE, bar_open |-> TRUE,
     callbacks |-> <<>>, bar_callbacks |-> <<>>, cb_registry |-> {},
     exc |-> NoExc, trace |-> <<>>, ret_code |-> "unset", max_open |-> 0,
     warnings |-> <<>>, revalidated |-> FALSE, gap |-> -1,
     result |-> FALSE, returned |-> FALSE, continue_save |-> TRUE,
     stale_kill |-> FALSE, stale_remove |-> FALSE, refreshed |-> <<>>,
     changelist |-> NotFetched, table |-> NotShown]

\* Connector.__get_default_values
get_default_values(s, env) ==
    P4_disconnect(
        Swallow(P4_run(P4_connect(s, "local", env), "local", "clients",
                       env.session = "ok", env.errors)),
        "local")

\* the text fields as Connector._create_ui fills them
DefaultFields(s) ==
    [port |-> get_pref(s, "CONNECTOR", "P4PORT", ""),
     user |-> get_pref(s, "CONNECTOR", "P4USER", ""),
     client |-> get_pref(s, "CONNECTOR", "P4CLIENT", "")]

\* Connector.__init__ after _create_ui
Connector(s, env) ==
    set_p4(log_connection(s, "P4 For Maya Started"), DefaultFields(s), FALSE, FALSE, env)

\* P4Bar(), P4MayaControl(), then Connector, CustomSave, ChangeLog, Rollback
Factory(file, env) ==
    refresh(
        CustomSave(Connector(
            get_default_values(add_to_log(Blank(file), Str("P4 For Maya started"), "LOG"),
                               env),
            env)),
        env)

-----------------------------------------------------------------------------
(* The state machine: one action per host event.                           *)

\* the handler's working record: the tool's state, nothing raised or done yet
Cur ==
    [connected |-> connected, p4_open |-> p4_open, local_open |-> local_open,
     p4_params |-> p4_params, job |-> job, jobs |-> jobs, elapsed |-> elapsed,
     since_reval |-> since_reval, conn_log |-> conn_log, bar_log |-> bar_log,
     prefs |-> prefs, pref_file |-> pref_file, state |-> state, options |-> options,
     icon |-> icon, bar_icon |-> bar_icon, window_open |-> window_open,
     bar_open |-> bar_open, callbacks |-> callbacks, bar_callbacks |-> bar_callbacks,
     cb_registry |-> cb_registry,
     exc |-> NoExc, trace |-> <<>>, ret_code |-> "unset",
     max_open |-> (IF p4_open THEN 1 ELSE 0) + (IF local_open THEN 1 ELSE 0),
     warnings |-> <<>>, revalidated |-> FALSE, gap |-> -1,
     result |-> FALSE, returned |-> FALSE, continue_save |-> TRUE,
     stale_kill |-> FALSE, stale_remove |-> FALSE, refreshed |-> <<>>,
     changelist |-> NotFetched, table |-> NotShown]

Start(r) ==
    /\ connected = r.connected
    /\ p4_open = r.p4_open
    /\ local_open = r.local_open
    /\ p4_params = r.p4_params
    /\ job = r.job
    /\ jobs = r.jobs
    /\ elapsed = r.elapsed
    /\ since_reval = r.since_reval
    /\ conn_log = r.conn_log
    /\ bar_log = r.bar_log
    /\ prefs = r.prefs
    /\ pref_file = r.pref_file
    /\ state = r.state
    /\ options = r.options
    /\ icon = r.icon
    /\ bar_icon = r.bar_icon
    /\ window_open = r.window_open
    /\ bar_open = r.bar_open
    /\ callbacks = r.callbacks
    /\ bar_callbacks = r.bar_callbacks
    /\ cb_registry = r.cb_registry

Commit(r) ==
    /\ connected' = r.connected
    /\ p4_open' = r.p4_open
    /\ local_open' = r.local_open
    /\ p4_params' = r.p4_params
    /\ job' = r.job
    /\ jobs' = r.jobs
    /\ elapsed' = r.elapsed
    /\ since_reval' = r.since_reval
    /\ conn_log' = r.conn_log
    /\ bar_log' = r.bar_log
    /\ prefs' = r.prefs
    /\ pref_file' = r.pref_file
    /\ state' = r.state
    /\ options' = r.options
    /\ icon' = r.icon
    /\ bar_icon' = r.bar_icon
    /\ window_open' = r.window_open
    /\ bar_open' = r.bar_open
    /\ callbacks' = r.callbacks
    /\ bar_callbacks' = r.bar_callbacks
    /\ cb_registry' = r.cb_registry

\* A run is followed while the two logs are short, or just past their limits.
Lines == Len(bar_log) + Len(conn_log)

Bounded ==
    \/ Lines <= MaxLog
    \/ /\ Len(bar_log) >= LogLimit
       /\ Len(conn_log) >= ConnLogLimit
       /\ Lines <= LogLimit + ConnLogLimit + MaxOver

\* the Connect button
Connect ==
    \E fields \in FieldInputs, env \in ConnectEnvs :
        /\ fields = Filled("p1") \/ env = BaseEnv
        /\ Commit(connect(Cur, fields, env))
        /\ Bounded'

\* the Disconnect button
Disconnect ==
    /\ Commit(disconnect(Cur, Filled("p1"), BaseEnv))
    /\ Bounded'

\* d seconds pass
Later(s, d) ==
    [s EXCEPT !.elapsed = @ + d, !.since_reval = IF @ < 0 THEN @ ELSE @ + d]

\* an idle event of the host, d seconds after the last one looked at
Idle ==
    /\ jobs # {}
    /\ \E d \in Delays, env \in PollEnvs :
          /\ elapsed + d <= MaxElapsed
          /\ since_reval + d <= MaxElapsed
          /\ Commit(check_connection(Later(Cur, d), Filled("p1"), env))
          /\ Bounded'

\* the before-save check callback
Save ==
    /\ \E c \in cb_registry : c[2] = "save"
    /\ \E env \in SaveEnvs :
           /\ Commit(intercept_save(Cur, env))
           /\ Bounded'

\* the radio buttons of the error mode
SetState ==
    \E option \in 0..2 :
        /\ state # CheckTypeOf(option)
        /\ Commit(set_state(Cur, option))

\* a check box or a text field of the settings tab
SetVariable ==
    \E e \in OptionEdits :
        /\ options[e[1]] # e[2]
        /\ Commit(set_variable(Cur, e[1], e[2]))

\* the connection icon of the docked bar: the settings window is opened
OpenWindow ==
    /\ bar_open
    /\ \E env \in RefreshEnvs :
           /\ Commit(open_window(Cur, env))
           /\ Bounded'

\* closing the settings window
CloseWindow ==
    /\ window_open
    /\ Commit(close_window(Cur))

\* a new scene or an opened scene: the callback registered for it refreshes
SceneEvent ==
    /\ \E c \in cb_registry : c[2] \in {"new", "open"}
    /\ \E env \in RefreshEnvs :
           /\ Commit(refresh(Cur, env))
           /\ Bounded'

\* closing the docked bar
CloseBar ==
    /\ bar_open
    /\ Commit(close_bar(Cur))

\* the prefix and the suffix field of the naming convention
SetNaming ==
    \E var \in {"naming_convention_prefix", "naming_convention_suffix"}, value \in NameTexts :
        /\ options[var] # value
        /\ Commit(set_variable(Cur, var, value))

\* the Simple and the Regex radio button
SetApproach ==
    \E value \in {0, 1} :
        /\ options.naming_approach # value
        /\ Commit(set_variable(Cur, "naming_approach", value))

\* the check boxes of the naming and of the directory convention
SetConvention ==
    \/ \E val \in BOOLEAN : options.check_naming # val /\ Commit(set_naming(Cur, val))
    \/ \E val \in BOOLEAN : options.check_directory # val /\ Commit(set_directory(Cur, val))

\* the directory field
SetDirectoryField ==
    \E value \in Directories :
        /\ options.directory # value
        /\ Commit(set_variable(Cur, "directory", value))

\* the Refresh button of the Submit tab
RefreshChangelist ==
    \E env \in ChangelistEnvs :
        /\ Commit(create_table(Cur, env))
        /\ Bounded'

\* the Refresh button of the File History tab
RefreshHistory ==
    \E env \in HistoryEnvs :
        /\ Commit(get_history(Cur, env))
        /\ Bounded'

\* every module is refreshed: P4MayaControl.refresh, as a tab opened from the
\* menu of the docked bar calls it
RefreshAll ==
    \E env \in RefreshEnvs :
        /\ Commit(refresh(Cur, env))
        /\ Bounded'

\* opening the workspace drop-down
RefreshWorkspaces ==
    \E env \in PollEnvs :
        /\ Commit(refresh_workspaces(Cur, env))
        /\ Bounded'

Init ==
    \E file \in PrefFiles, env \in PollEnvs :
        Start(Factory(file, env))

\* The handlers that talk to the server; the settings are those of the
\* preference file.
Next ==
    \/ Connect
    \/ Disconnect
    \/ Idle
    \/ Save
    \/ RefreshChangelist
    \/ RefreshHistory
    \/ RefreshAll
    \/ RefreshWorkspaces

Spec == Init /\ [][Next]_vars

\* The settings tab at work between saves.
NextSettings ==
    \/ Connect
    \/ Save
    \/ SetState
    \/ SetVariable

SpecSettings == Init /\ [][NextSettings]_vars

\* The preference map and its file: the settings are changed and the window
\* is closed, any number of times.
NextPrefs ==
    \/ SetState
    \/ SetVariable
    \/ OpenWindow
    \/ CloseWindow

SpecPrefs == Init /\ [][NextPrefs]_vars

\* The settings window and the docked bar are opened and closed while the
\* tool connects and saves are intercepted.
NextWindow ==
    \/ Connect
    \/ Save
    \/ OpenWindow
    \/ CloseWindow
    \/ SceneEvent
    \/ CloseBar

SpecWindow == Init /\ [][NextWindow]_vars

\* The naming and directory conventions as the settings tab sets them; the
\* path checks are applied to the paths of ScenePath.
NextNames ==
    \/ SetNaming
    \/ SetApproach
    \/ SetConvention
    \/ SetDirectoryField

SpecNames == Init /\ [][NextNames]_vars

-----------------------------------------------------------------------------
(* A long session: Disconnect pressed until both logs hold LogLimit - 1    *)
(* lines, then a successful Connect.  The state is the one the handlers    *)
(* above produce, so it is a state the tool reaches.                       *)

Rested(s) ==
    [s EXCEPT !.exc = NoExc, !.trace = <<>>, !.ret_code = "unset",
              !.max_open = 0, !.warnings = <<>>, !.revalidated = FALSE, !.gap = -1,
              !.result = FALSE, !.returned = FALSE, !.continue_save = TRUE,
              !.stale_kill = FALSE, !.stale_remove = FALSE, !.refreshed = <<>>,
              !.changelist = NotFetched, !.table = NotShown]

RECURSIVE Clicks(_, _)
Clicks(s, n) ==
    IF n = 0 \/ Raised(s) THEN s
    ELSE Clicks(Rested(disconnect(s, Filled("p1"), BaseEnv)), n - 1)

LongIdle(file) == Clicks(Rested(Factory(file, BaseEnv)), LogLimit - 2)

InitLong ==
    \E file \in PrefFiles :
        Start(connect(LongIdle(file), Filled("p1"), BaseEnv))

SpecLong == InitLong /\ [][Next]_vars

-----------------------------------------------------------------------------
(* Properties.  A handler's outcome is read off the record it returns from *)
(* the present state: the commands that reached the server (trace, with    *)
(* "check" where the convention checks were evaluated), the return code    *)
(* given to the host, the exception that left the handler.                 *)

Issued(r, cmd) == \E i \in 1..Len(r.trace) : r.trace[i] = cmd
Count(r, cmd) == Cardinality({i \in 1..Len(r.trace) : r.trace[i] = cmd})
Denied(r) == r.ret_code = "false"
ChecksFail(env) == ~check_open_file(Cur, env).success
AddOrEditRaised(r, env) == (Issued(r, "add") \/ Issued(r, "edit")) /\ ~env.open_ok

\* what C1 asks of one save interception
DeniedOnlyIf(r, env) ==
    /\ Denied(r) => \/ state = "ERROR" /\ Issued(r, "check") /\ ChecksFail(env)
                    \/ AddOrEditRaised(r, env)
    /\ ~connected => r.ret_code = "true"
    /\ ~AddOrEditRaised(r, env)
          /\ (state # "ERROR" \/ ~ChecksFail(env) \/ (~env.mapped /\ ~options.outside_p4))
          => ~Denied(r)
    /\ ~Denied(r) /\ ~Raised(r) => r.ret_code = "true"

\* C1: a save interception denies the save (return code false) only if the
\* mode is Error and a convention check failed, or the add or edit command
\* raised; not connected, in mode Warning or None, with the checks passed or
\* with the file outside the workspace, the save is allowed.
C1_DeniedOnlyOnErrorModeFailure ==
    \A env \in SaveEnvs : DeniedOnlyIf(intercept_save(Cur, env), env)

\* a connected tool in mode Error is about to deny the save of a scene that
\* breaks a convention
C1_Witness ==
    /\ connected
    /\ state = "ERROR"
    /\ \E env \in SaveEnvs :
          /\ ChecksFail(env)
          /\ Denied(intercept_save(Cur, env))
          /\ intercept_save(Cur, env).warnings # <<>>

Last(l) == l[Len(l)]

\* what C2 asks of one message logged through P4Bar.add_to_log
KeepsNewest(r, msg_type, message) ==
    /\ ~Raised(r)
    /\ Len(r.bar_log) <= LogLimit
    /\ Last(r.bar_log) = [type |-> msg_type, msg |-> message]
    /\ IF Len(bar_log) < LogLimit
       THEN r.bar_log = Append(bar_log, [type |-> msg_type, msg |-> message])
       ELSE r.bar_log = Append(Tail(bar_log), [type |-> msg_type, msg |-> message])

\* C2: the status-bar log never holds more than 50 entries, and a message
\* logged through P4Bar.add_to_log is kept as the newest entry, the oldest
\* entry making room for it once 50 are held.
C2_BarLogKeepsLast50 ==
    /\ Len(bar_log) <= LogLimit
    /\ \A msg_type \in MessageType :
          KeepsNewest(add_to_log(Cur, Str("a message"), msg_type), msg_type, "a message")

\* what C3 asks of a save interception whose add or edit command failed
FailureReported(r, env) ==
    /\ ~Raised(r)
    /\ Denied(r)
    /\ ~r.p4_open
    /\ Len(r.bar_log) = Len(bar_log) + Len(r.warnings) + 1
    /\ Last(r.bar_log) = [type |-> "ERROR", msg |-> JoinLines(env.errors)]

\* C3: when the add or edit command fails during a save interception, the
\* failure is caught, an Error entry with its message is appended to the
\* status-bar log, the session is released and the save is denied.
C3_AddEditFailureDenied ==
    \A env \in SaveEnvs :
        connected /\ AddOrEditRaised(intercept_save(Cur, env), env)
            => FailureReported(intercept_save(Cur, env), env)

\* what C4 asks of one handler: never two sessions, none left open
Closed(r) == r.max_open <= 1 /\ ~r.p4_open /\ ~r.local_open

\* C4: at most one version-control session is open at any time and none is
\* open between host events: a connect attempt, a poll, a save interception,
\* a changelist, file-history or workspace-list refresh each close the
\* session they opened, on every path.
C4_OneSessionClosedAfterEachEvent ==
    /\ ~p4_open /\ ~local_open
    /\ \A fields \in FieldInputs, env \in ConnectEnvs : Closed(connect(Cur, fields, env))
    /\ \A d \in Delays, env \in PollEnvs :
          Closed(check_connection(Later(Cur, d), Filled("p1"), env))
    /\ \A env \in SaveEnvs : Closed(intercept_save(Cur, env))
    /\ \A env \in ChangelistEnvs : Closed(get_changelist(Cur, env))
    /\ \A env \in HistoryEnvs : Closed(get_history(Cur, env))
    /\ \A env \in RefreshEnvs : Closed(refresh(Cur, env))
    /\ \A env \in PollEnvs : Closed(refresh_workspaces(Cur, env))
    /\ Closed(disconnect(Cur, Filled("p1"), BaseEnv))

\* a session was opened and closed again on a failure path: the edit command
\* of a save fails
SessionUsed(r) == r.max_open = 1 /\ Closed(r) /\ Raised(r) /\ Issued(r, "edit")

C4_Witness ==
    /\ connected
    /\ \E env \in SaveEnvs : ~env.open_ok /\ SessionUsed(intercept_save(Cur, env))

\* what C5 asks of the poll that finds the session invalid
PollFailureReported(r) ==
    /\ ~r.connected
    /\ Len(r.bar_log) = Len(bar_log) + 1
    /\ Last(r.bar_log).type = "WARNING"
    /\ Len(r.conn_log) > 0
    /\ Head(r.conn_log) = Last(r.bar_log).msg

\* C5: when the tool is connected and the session has become invalid, the
\* poll that comes once the interval has passed sets the connected flag to
\* false and logs a Warning message to the status-bar log and to the
\* connection log.
C5_PollFailureDowngrades ==
    connected /\ jobs # {} =>
        \A d \in Delays, env \in {Down, Expired} :
            elapsed + d > Interval =>
                PollFailureReported(check_connection(Later(Cur, d), Filled("p1"), env))

\* what C6 asks of one idle event, d seconds after the one before
Throttled(r) ==
    /\ r.revalidated /\ r.gap >= 0 => r.gap > Interval
    /\ ~connected => ~r.revalidated /\ r.trace = <<>>

\* C6: any two session re-validations of Connector.__check_connection are
\* more than 10 seconds apart, however often idle events fire, and an idle
\* event that finds the connected flag false issues no command.
C6_PollThrottled ==
    jobs # {} =>
        \A d \in Delays, env \in PollEnvs :
            Throttled(check_connection(Later(Cur, d), Filled("p1"), env))

\* a second re-validation is about to happen, more than 10 seconds after the
\* first
Revalidates(r) == r.revalidated /\ r.gap > Interval /\ Issued(r, "login")

C6_Witness ==
    /\ jobs # {}
    /\ connected
    /\ since_reval >= 0
    /\ \E d \in Delays : Revalidates(check_connection(Later(Cur, d), Filled("p1"), BaseEnv))

\* what C7 asks of one save interception
ChecksFirst(r, env) ==
    /\ \A i, j \in 1..Len(r.trace) :
          r.trace[i] \in {"add", "edit"} /\ r.trace[j] = "check" => j < i
    /\ state = "ERROR" /\ Issued(r, "check") /\ ChecksFail(env)
          => ~Issued(r, "add") /\ ~Issued(r, "edit")

\* C7: within one save interception the convention checks run before any add
\* or edit command, and when they fail in mode Error no add or edit command
\* is issued.
C7_ChecksBeforeAddOrEdit ==
    \A env \in SaveEnvs : ChecksFirst(intercept_save(Cur, env), env)

\* a save whose checks were evaluated and passed, and which then checked the
\* file out
CheckedThenEdited(r) == Issued(r, "check") /\ Issued(r, "edit") /\ r.ret_code = "true"

C7_Witness ==
    /\ connected
    /\ state = "ERROR"
    /\ \E env \in SaveEnvs : ~ChecksFail(env) /\ CheckedThenEdited(intercept_save(Cur, env))

\* what C8 asks of a save interception the checks did not deny
AddOrEditIffMapped(r, env) ==
    IF env.session = "ok" /\ env.mapped
    THEN /\ Count(r, "add") + Count(r, "edit") = 1
         /\ Issued(r, "edit") <=> env.in_depot
    ELSE /\ Count(r, "add") + Count(r, "edit") = 0
         /\ ~Denied(r)

\* C8: when connected and the save is not denied by the convention checks,
\* exactly one command is issued on the saved file if and only if its
\* directory is mapped in the workspace, add when the file is not in the
\* depot and edit when it is; otherwise neither is issued and the save is
\* allowed.
C8_AddOrEditIffMapped ==
    connected =>
        \A env \in SaveEnvs :
            ~Denied(intercept_save(Cur, env))
                => AddOrEditIffMapped(intercept_save(Cur, env), env)

\* the failure messages of the checks are the entries the save appended,
\* with the severity given
LoggedWith(r, warnings, msg_type) ==
    /\ Len(r.bar_log) >= Len(bar_log) + Len(warnings)
    /\ \A i \in 1..Len(warnings) :
          r.bar_log[Len(bar_log) + i] = [type |-> msg_type, msg |-> warnings[i]]

\* what C9 asks of a save interception whose checks failed
WarnedAndContinued(r, env) ==
    /\ state = "ERROR" => LoggedWith(r, check_open_file(Cur, env).warnings, "ERROR")
    /\ state = "WARNING" =>
          /\ ~Denied(r)
          /\ LoggedWith(r, check_open_file(Cur, env).warnings, "WARNING")
          /\ Issued(r, "edit") <=> env.mapped /\ env.in_depot
          /\ Issued(r, "add") <=> env.mapped /\ ~env.in_depot

\* C9: in mode Warning a failed convention check never denies the save; every
\* failure message is logged with severity Warning (Error in mode Error) and
\* the interception goes on to the add or edit step as if the checks had
\* passed.
C9_WarningModeNeverDenies ==
    connected =>
        \A env \in SaveEnvs :
            Issued(intercept_save(Cur, env), "check") /\ ChecksFail(env)
                => WarnedAndContinued(intercept_save(Cur, env), env)

\* the convention messages __check_path and __check_geometry can give
ConventionMessage(e) ==
    \E env \in SaveEnvs :
        \E i \in 1..Len(check_open_file(Cur, env).warnings) :
            e.msg = check_open_file(Cur, env).warnings[i]

\* what C10 asks of one save interception in mode None
Unchecked(r, env) ==
    /\ ~Issued(r, "check")
    /\ r.warnings = <<>>
    /\ \A i \in 1..Len(r.bar_log) : i > Len(bar_log) => ~ConventionMessage(r.bar_log[i])
    /\ Issued(r, "edit") <=> env.session = "ok" /\ env.mapped /\ env.in_depot
    /\ Issued(r, "add") <=> env.session = "ok" /\ env.mapped /\ ~env.in_depot

\* C10: in mode None a save interception evaluates no convention check and
\* logs no convention message, whatever the check options are, and the add
\* or edit step still runs.
C10_ModeNoneSkipsChecks ==
    connected /\ state = "NONE" =>
        \A env \in SaveEnvs : Unchecked(intercept_save(Cur, env), env)

\* a scene that breaks the conventions is saved in mode None and checked out
C10_Witness ==
    /\ connected
    /\ state = "NONE"
    /\ \E env \in SaveEnvs :
          /\ ChecksFail(env)
          /\ Issued(intercept_save(Cur, env), "edit")
          /\ intercept_save(Cur, env).ret_code = "true"

\* the commands of the version-control client the tool may issue
Allowed ==
    {"info", "login", "clients", "where", "files", "add", "edit", "opened",
     "filelog", "describe"}

\* the commands a handler sent to the server
Commands(r) == {r.trace[i] : i \in 1..Len(r.trace)} \ {"check"}

\* what C11 asks of a handler other than the save interception
ReadsOnly(r) == Commands(r) \subseteq Allowed \ {"add", "edit"}

C12_OptionsKeepDefaultKeys ==
    /\ Cardinality(DOMAIN DefaultOptions) = 13
    /\ DOMAIN DefaultOptions \subseteq DOMAIN options

\* the stored option map lacked keys and carried an unknown one, and an
\* option has since been changed through its check box
C12_Witness ==
    /\ "naming_convention" \in DOMAIN options
    /\ "outside_p4" \notin DOMAIN read_pref(Written(LegacyPrefs)).CUSTOM_SAVE.options
    /\ options.outside_p4
    /\ prefs.CUSTOM_SAVE.options = options

\* the session could be established, info reports no unknown user or
\* workspace, and login -s succeeds
Reachable(env) == env.session = "ok" /\ env.unknown = "none"

\* the parameters of the fields are the ones the preference store holds
Persisted(r, fields) ==
    /\ get_pref(r, "CONNECTOR", "P4PORT", "") = fields.port
    /\ get_pref(r, "CONNECTOR", "P4USER", "") = fields.user
    /\ get_pref(r, "CONNECTOR", "P4CLIENT", "") = fields.client

\* what C13 asks of one connect attempt with the three fields filled
ConnectedIff(r, fields, env) ==
    /\ ~Raised(r)
    /\ r.connected <=> Reachable(env)
    /\ Reachable(env) =>
          /\ Persisted(r, fields)
          /\ r.job # 0 /\ r.job \in r.jobs
    /\ ~Reachable(env) =>
          /\ r.job = 0 /\ r.jobs = {}
          /\ Len(r.bar_log) = Len(bar_log) + 1
          /\ Last(r.bar_log).type = "ERROR"
          /\ Head(r.conn_log) = Last(r.bar_log).msg

\* C13: a connect attempt with all three fields filled ends with the
\* connected flag true if and only if the session could be established, info
\* reports no unknown user or workspace and login -s succeeds; then the
\* parameters are persisted and a polling job is running.  Otherwise it ends
\* with the flag false, no polling job and an Error message in the log.
C13_ConnectedIffReachable ==
    \A fields \in {Filled("p1"), Filled("p2")}, env \in ConnectEnvs :
        ConnectedIff(connect(Cur, fields, env), fields, env)

\* the connection parameters kept by the preference store and by the
\* handler's session are those of the present state
ParamsKept(r) ==
    /\ Get(r.prefs, "CONNECTOR", <<>>) = Get(prefs, "CONNECTOR", <<>>)
    /\ r.p4_params = p4_params

\* the connect attempt wrote the parameters of the fields to both
ParamsWritten(r, fields) ==
    /\ Persisted(r, fields)
    /\ r.p4_params = fields

\* C14: the connection parameters are written to the preference store
\* (P4PORT, P4USER, P4CLIENT) and to the handler's session only by a connect
\* attempt that succeeds; a failed connect attempt, a disconnect and a poll
\* failure leave the stored parameters and the session's port, user and
\* client unchanged.
C14_ParamsWrittenOnlyOnSuccess ==
    /\ \A fields \in FieldInputs, env \in ConnectEnvs :
          IF Reachable(env) /\ fields \in {Filled("p1"), Filled("p2")}
          THEN \/ ParamsWritten(connect(Cur, fields, env), fields)
               \/ Raised(connect(Cur, fields, env)) /\ ParamsKept(connect(Cur, fields, env))
          ELSE ParamsKept(connect(Cur, fields, env))
    /\ ParamsKept(disconnect(Cur, Filled("p2"), BaseEnv))
    /\ \A d \in Delays, env \in PollEnvs :
          ParamsKept(check_connection(Later(Cur, d), Filled("p2"), env))

\* the parameters of an earlier successful connect are held, and a connect
\* attempt with other parameters that fails, a disconnect and a failing poll
\* are about to leave them as they are
C14_Witness ==
    /\ connected
    /\ p4_params = Filled("p2")
    /\ prefs.CONNECTOR.P4PORT = "p2"
    /\ ~connect(Cur, Filled("p1"), Down).connected
    /\ ParamsKept(connect(Cur, Filled("p1"), Down))
    /\ \E d \in Delays :
          /\ ~check_connection(Later(Cur, d), Filled("p1"), Down).connected
          /\ ParamsKept(check_connection(Later(Cur, d), Filled("p1"), Down))

\* the items of the module's entry in the preference store, <<>> when absent
Stored(r, var_key) == Get(Get(r.prefs, "CUSTOM_SAVE", <<>>), var_key, <<>>)
HasStored(r, var_key) ==
    "CUSTOM_SAVE" \in DOMAIN r.prefs /\ var_key \in DOMAIN r.prefs.CUSTOM_SAVE

\* the callback left the preferences of the other modules as they were
OthersKept(r) ==
    /\ DOMAIN r.prefs = DOMAIN prefs \cup {"CUSTOM_SAVE"}
    /\ \A k \in DOMAIN prefs \ {"CUSTOM_SAVE"} : r.prefs[k] = prefs[k]

\* the stored option map is the module's option map
OptionsStored(r) ==
    /\ HasStored(r, "options")
    /\ DOMAIN Stored(r, "options") = DOMAIN r.options
    /\ Stored(r, "options") = r.options

\* the stored state, read as CustomSave.__load_pref reads it (0 when none is
\* stored), is the module's mode
StateStored(r) == CheckTypeOf(get_pref(r, "CUSTOM_SAVE", "state", 0)) = r.state

\* C15: every change of a check option or of the error mode through a UI
\* callback is persisted at the time of the change: right after the callback
\* the CUSTOM_SAVE entry of the preference store holds the new value, its
\* stored option map equals the module's option map and its stored state
\* equals the mode, and no other module's preferences are altered.
C15_ChangePersisted ==
    /\ \A option \in 0..2 :
          /\ set_state(Cur, option).state = CheckTypeOf(option)
          /\ HasStored(set_state(Cur, option), "state")
          /\ Stored(set_state(Cur, option), "state") = option
          /\ StateStored(set_state(Cur, option))
          /\ OptionsStored(set_state(Cur, option))
          /\ OthersKept(set_state(Cur, option))
    /\ \A e \in OptionEdits :
          /\ set_variable(Cur, e[1], e[2]).options[e[1]] = e[2]
          /\ OptionsStored(set_variable(Cur, e[1], e[2]))
          /\ StateStored(set_variable(Cur, e[1], e[2]))
          /\ OthersKept(set_variable(Cur, e[1], e[2]))

\* the mode and an option have been changed since the preference file was
\* read, and the store holds both next to the Connector's parameters
C15_Witness ==
    /\ pref_file = Written(StoredPrefs(0, FALSE))
    /\ state = "WARNING"
    /\ options.outside_p4
    /\ HasStored(Cur, "state") /\ Stored(Cur, "state") = 1
    /\ OptionsStored(Cur)
    /\ "CONNECTOR" \in DOMAIN prefs

\* C16: closing the settings window writes the whole preference map to the
\* preference file, and loading that file at the next start gives exactly the
\* map held at the time of the close, module by module and option by option.
C16_SaveThenLoadIsIdentity ==
    /\ read_pref(save_pref(Cur).pref_file) = prefs
    /\ \A env \in PollEnvs : Factory(save_pref(Cur).pref_file, env).prefs = prefs
    /\ \A class_key \in DOMAIN prefs : \A var_key \in DOMAIN prefs[class_key] :
          get_pref(Blank(save_pref(Cur).pref_file), class_key, var_key, <<>>)
              = prefs[class_key][var_key]

\* the window has been closed after the mode and an option were changed: the
\* file is no longer the one found at start and holds the present map
C16_Witness ==
    /\ pref_file \notin PrefFiles
    /\ pref_file = Written(prefs)
    /\ read_pref(pref_file) = prefs
    /\ HasStored(Cur, "state")
    /\ OptionsStored(Cur)
    /\ options.outside_p4
    /\ options.naming_convention_prefix = SMPrefix

StartsWith(x, p) == Len(p) <= Len(x) /\ SubSeq(x, 1, Len(p)) = p
EndsWith(x, q) == Len(q) <= Len(x) /\ SubSeq(x, Len(x) - Len(q) + 1, Len(x)) = q

\* the name starts with the configured prefix and ends with the configured
\* suffix, both read as literal text
Respects(name) ==
    /\ StartsWith(name, options.naming_convention_prefix)
    /\ EndsWith(name, options.naming_convention_suffix)

\* the warnings of the naming convention among those given
NamingWarnings(warnings) ==
    Cardinality({i \in 1..Len(warnings) :
        warnings[i] = "The naming convention with pattern None is not being respected."})

\* what C17 asks of CustomSave.__check_path for one file name
NamingJudged(name) ==
    IF Respects(name) \/ Respects(splitext(name))
    THEN NamingWarnings(check_path(Cur, ScenePath(WorkDir, name)).warnings) = 0
    ELSE /\ NamingWarnings(check_path(Cur, ScenePath(WorkDir, name)).warnings) = 1
         /\ ~check_path(Cur, ScenePath(WorkDir, name)).success

\* C17: with the naming check enabled and the simple approach selected,
\* CustomSave.__check_path passes the naming convention exactly when the file
\* name, with or without its extension, starts with the configured prefix and
\* ends with the configured suffix; otherwise it gives exactly one naming
\* warning.
C17_NamingPrefixAndSuffix ==
    options.check_naming /\ options.naming_approach = 0 =>
        \A name \in SceneNames : NamingJudged(name)

\* the file lies in the configured directory, at any depth
Inside(path, directory) == StartsWith(path, realpath(directory) \o <<"/">>)

\* the warnings of the directory convention among those given
DirectoryWarnings(warnings) ==
    Cardinality({i \in 1..Len(warnings) :
        warnings[i] = "The file should be saved in {directory}, but was saved in {dirname}."})

\* what C18 asks of CustomSave.__check_path for a scene saved in one directory
DirectoryJudged(dir) ==
    IF options.directory = <<>> \/ Inside(ScenePath(dir, <<"S", ".", "m">>), options.directory)
    THEN DirectoryWarnings(check_path(Cur, ScenePath(dir, <<"S", ".", "m">>)).warnings) = 0
    ELSE /\ DirectoryWarnings(check_path(Cur, ScenePath(dir, <<"S", ".", "m">>)).warnings) = 1
         /\ ~check_path(Cur, ScenePath(dir, <<"S", ".", "m">>)).success

\* C18: with the directory check enabled and a directory configured,
\* CustomSave.__check_path passes the directory convention exactly when the
\* saved file lies inside the configured directory, at any depth; a file in a
\* sibling directory whose name only begins with the configured directory's
\* name fails.  With no directory configured the check always passes.
C18_DirectoryContainment ==
    options.check_directory => \A dir \in SceneDirs : DirectoryJudged(dir)

\* what C19 asks of P4MayaControl.p4_connect when the session fails
ErrorInBothLogs(r, log_msg) ==
    /\ ~Raised(r)
    /\ ~r.p4_open
    /\ Len(r.bar_log) = Len(bar_log) + 1
    /\ Last(r.bar_log) = [type |-> "ERROR", msg |-> log_msg]
    /\ Len(r.conn_log) = Len(conn_log) + 1
    /\ Head(r.conn_log) = log_msg

\* C19: when P4MayaControl.p4_connect is called with error handling enabled
\* and the session cannot be established or login -s fails, the session is
\* released, the error message is appended to the status-bar log and to the
\* connection log, and p4_connect returns without raising to its caller.
C19_ConnectErrorLoggedTwice ==
    connected =>
        \A env \in {Down, Expired} :
            ErrorInBothLogs(p4_connect(Cur, TRUE, env),
                            ErrorText(P4Exception(env.errors),
                                      "The server given does not exist. Please try again."))

\* what C20 asks of one message logged through Connector.log_connection
KeepsLatest(r, message) ==
    /\ ~Raised(r)
    /\ Len(r.conn_log) <= ConnLogLimit
    /\ Head(r.conn_log) = message
    /\ IF Len(conn_log) < ConnLogLimit
       THEN r.conn_log = <<message>> \o conn_log
       ELSE r.conn_log = <<message>> \o SubSeq(conn_log, 1, ConnLogLimit - 1)

\* C20: the connection log never holds more than 50 entries, and after a
\* message is logged through Connector.log_connection the entries kept are
\* the 50 most recently logged, newest first.
C20_ConnLogKeepsLast50 ==
    /\ Len(conn_log) <= ConnLogLimit
    /\ KeepsLatest(log_connection(Cur, "a message"), "a message")

\* what C21 asks of a poll: one that ends disconnected leaves no polling job
NoJobLeft(r) == ~r.connected => r.jobs = {} /\ r.job = 0

\* C21: when a connection poll finds that the session can no longer be
\* established, the polling script job is killed: after a poll failure no
\* polling job remains registered, so a polling job is registered only while
\* the connected flag is true.
C21_PollFailureKillsJob ==
    /\ jobs # {} => connected
    /\ \A d \in Delays, env \in {Down, Expired} :
           NoJobLeft(check_connection(Later(Cur, d), Filled("p1"), env))

\* what C22 asks of the job bookkeeping a handler leaves behind
JobsInOrder(r) ==
    /\ Cardinality(r.jobs) <= 1
    /\ r.jobs = (IF r.job = 0 THEN {} ELSE {r.job})
    /\ r.connected => r.jobs # {}
    /\ ~r.stale_kill

\* C22: after any sequence of connect attempts, disconnects and poll
\* failures at most one polling script job is registered, the Connector's
\* stored job id refers to it (no registered job is orphaned, no killed job
\* is killed a second time), and whenever the connected flag is true a
\* polling job is registered.
C22_OneJobNoOrphan ==
    /\ JobsInOrder(Cur)
    /\ \A fields \in FieldInputs, env \in ConnectEnvs :
           JobsInOrder(connect(Cur, fields, env))
    /\ JobsInOrder(disconnect(Cur, Filled("p1"), BaseEnv))
    /\ \A d \in Delays, env \in PollEnvs :
           JobsInOrder(check_connection(Later(Cur, d), Filled("p1"), env))

\* a poll failure left the job registered, and the next Connect, successful
\* or not, keeps or kills that one job
C22_Witness ==
    /\ ~connected
    /\ jobs = {job}
    /\ connect(Cur, Filled("p1"), BaseEnv).connected
    /\ connect(Cur, Filled("p1"), BaseEnv).jobs = jobs
    /\ connect(Cur, Filled("p1"), Down).jobs = {}

\* the server as change_connection finds it: Connector.__connect has just
\* run info and login -s on it, the commands of the refresh may still fail
Answering == {env \in RefreshEnvs \cup HistoryEnvs : env.session = "ok"}

\* what C23 asks of one call of change_connection with the flag value conn
RefreshedOnChange(r, conn) ==
    /\ ~Raised(r)
    /\ r.connected = conn
    /\ r.icon = conn
    /\ r.bar_icon = conn
    /\ r.refreshed = (IF connected # conn THEN Observers ELSE <<>>)

\* C23: P4MayaControl.change_connection refreshes the subscribed modules
\* exactly when the connected flag changes value: a call that leaves the flag
\* at its previous value triggers no observer refresh, a call that flips it
\* refreshes every subscribed module once, and in both cases the status
\* displays are set to the new flag value.
C23_RefreshExactlyOnChange ==
    \A conn \in BOOLEAN, port \in {"p1", "p2"}, env \in Answering :
        RefreshedOnChange(change_connection(Cur, port, "user", "client", conn, env),
                          conn)

\* connected: the call with True refreshes nothing, the call with False
\* refreshes the four modules
C23_Witness ==
    /\ connected
    /\ change_connection(Cur, "p1", "user", "client", TRUE, BaseEnv).refreshed = <<>>
    /\ change_connection(Cur, "p1", "user", "client", FALSE, BaseEnv).refreshed
           = <<"Connector", "CustomSave", "ChangeLog", "Rollback">>
    /\ ~change_connection(Cur, "p1", "user", "client", FALSE, BaseEnv).icon

\* the callbacks of one kind registered with the host
OfKind(registry, kind) == {c \in registry : c[2] = kind}
SceneCallbacks(registry) == OfKind(registry, "new") \cup OfKind(registry, "open")

\* C24: the scene-new and scene-open refresh callbacks are registered
\* exactly while the settings window is open: opening the window any number
\* of times registers at most one callback of each kind, and closing the
\* window removes them, so that after a close no scene refresh callback
\* remains registered.
C24_SceneCallbacksWhileOpen ==
    /\ Cardinality(OfKind(cb_registry, "new")) <= 1
    /\ Cardinality(OfKind(cb_registry, "open")) <= 1
    /\ window_open <=> SceneCallbacks(cb_registry) # {}
    /\ window_open => SceneCallbacks(close_window(Cur).cb_registry) = {}

\* the ids a list of managed callbacks holds
Managed(cbs) == {cbs[i] : i \in 1..Len(cbs)}

\* what C25 asks of the record the close of the docked bar leaves
BarCallbacksGone(r) ==
    /\ Managed(bar_callbacks) \cap CbIds(r.cb_registry) = {}
    /\ OfKind(r.cb_registry, "save") = {}
    /\ r.bar_callbacks = <<>>
    /\ ~r.stale_remove
    /\ ~r.bar_open

\* C25: closing the docked bar removes every callback handed to
\* manage_callback, in particular the before-save check callback, and leaves
\* the bar's managed-callback list empty: after the bar is closed no save is
\* intercepted and no callback id is removed twice.
C25_BarCloseRemovesCallbacks ==
    /\ bar_open => BarCallbacksGone(close_bar(Cur))
    /\ ~bar_open => bar_callbacks = <<>> /\ OfKind(cb_registry, "save") = {}
    /\ ~bar_open => ~ENABLED Save

\* the bar is closed while the tool is connected and the window is open
C25_Witness ==
    /\ ~bar_open
    /\ connected
    /\ window_open
    /\ bar_callbacks = <<>>
    /\ SceneCallbacks(cb_registry) = cb_registry

\* what C26 asks of the record a disconnect leaves
Disconnected(r) ==
    /\ ~Raised(r)
    /\ ~r.connected
    /\ r.jobs = {} /\ r.job = 0
    /\ ~r.p4_open
    /\ r.conn_log # <<>> /\ Head(r.conn_log) = "Disconnected from P4."
    /\ Len(r.conn_log) = Len(conn_log) + 1 \/ Len(r.conn_log) = ConnLogLimit
    /\ r.bar_log # <<>> /\ r.bar_log[Len(r.bar_log)].msg = "Disconnected from P4."
    /\ Len(r.bar_log) = Len(bar_log) + 1 \/ Len(r.bar_log) = LogLimit

\* C26: a disconnect always ends with the connected flag false, no polling
\* job registered, the handler's session closed, and the message
\* "Disconnected from P4." appended to both the connection log and the
\* status-bar log, whether or not the tool was connected before.
C26_DisconnectAlwaysDisconnects ==
    \A port \in {"p1", "p2"} : Disconnected(disconnect(Cur, Filled(port), BaseEnv))

\* what C27 asks of a connect attempt with an empty field: only conn_log moves
OnlyConnLogChanged(r) ==
    /\ r.connected = connected
    /\ r.job = job /\ r.jobs = jobs
    /\ r.prefs = prefs /\ r.pref_file = pref_file
    /\ r.p4_params = p4_params
    /\ r.p4_open = p4_open /\ r.local_open = local_open
    /\ r.bar_log = bar_log
    /\ r.icon = icon /\ r.bar_icon = bar_icon
    /\ r.trace = <<>>
    /\ r.max_open = Cur.max_open
    /\ r.conn_log # <<>> /\ Head(r.conn_log) = "Please fill in all the fields."

Unfilled ==
    {[port |-> p, user |-> u, client |-> c] :
        p \in {"", "p2"}, u \in {"", "user"}, c \in {"", "client"}}
    \ {Filled("p2")}

\* C27: a connect attempt in which the server, user or workspace field is
\* empty opens no session and changes nothing except the connection log: the
\* connected flag, the polling job, the stored preferences, the handler's
\* session parameters and the status-bar log are all unchanged (an existing
\* connection stays connected).
C27_EmptyFieldChangesOnlyConnLog ==
    \A fields \in Unfilled, env \in ConnectEnvs :
        OnlyConnLogChanged(connect(Cur, fields, env))

\* connected to p1 with a polling job, and a connect with an empty workspace
\* field leaves all of it as it is
C27_Witness ==
    /\ connected
    /\ jobs # {}
    /\ p4_params.port = "p1"
    /\ connect(Cur, [Filled("p2") EXCEPT !.client = ""], BaseEnv).connected
    /\ connect(Cur, [Filled("p2") EXCEPT !.client = ""], BaseEnv).conn_log # conn_log

\* a command of the changelist refresh fails: login -s or opened
CommandFails(env) == env.session # "ok" \/ env.opened = "fail"

\* the Error entries a handler added to the status-bar log
ErrorsLogged(r) ==
    Cardinality({i \in (Len(bar_log) + 1)..Len(r.bar_log) : r.bar_log[i].type = "ERROR"})

NotConnectedShown(r) ==
    /\ r.trace = <<>>
    /\ r.max_open = Cur.max_open
    /\ r.changelist.kind = "None"
    /\ r.table.kind = "P4 is not connected."

\* what C28 asks of one refresh of the changelist against the server env
Snapshot(r, env) ==
    /\ NotConnectedShown(r) <=> ~connected
    /\ connected /\ ~CommandFails(env) /\ env.opened # "stale"
          => /\ r.changelist = [kind |-> "list", rows |-> Entries(RawOpened(env))]
             /\ Len(r.table.rows) = Len(RawOpened(env))
             /\ \A i \in 1..Len(r.table.rows) :
                    r.table.rows[i].file = RawOpened(env)[i].depotFile
    /\ connected /\ CommandFails(env)
          => /\ r.changelist = [kind |-> "list", rows |-> <<>>]
             /\ r.table.rows = <<>>
             /\ ErrorsLogged(r) = 1

\* C28: a changelist refresh issues no version-control command and reports
\* "not connected" exactly when the connected flag is false; when connected,
\* the entries shown are a snapshot of the `opened` result that is never
\* mutated locally, and if any command of the refresh fails the list is
\* empty and exactly one Error entry is logged.
C28_ChangelistSnapshot ==
    \A env \in ChangelistEnvs : Snapshot(create_table(Cur, env), env)

=============================================================================
